---- MODULE Spec2Model ----
(***************************************************************************)
(* Model of src/main.go: the GitHub OAuth device flow client.              *)
(*                                                                         *)
(* run() requests a device code, prompts the user and polls the token      *)
(* endpoint (pollAccessToken) until a token, a terminal error or the       *)
(* deadline.  The program is sequential; pc is its position.  The server,  *)
(* the network and the clock are the environment: every reply, round-trip  *)
(* time and oversleep is drawn from a small set.                           *)
(*                                                                         *)
(* Time is counted in seconds.  time.Duration is a signed 64-bit count of  *)
(* nanoseconds in Go; the model keeps the two's-complement wrap-around of  *)
(* its arithmetic with a width of DurationBits bits over seconds.          *)
(***************************************************************************)
EXTENDS Integers, Sequences, FiniteSets, TLC

\* ------------------------------------------------------------------ bounds

\* Width, in bits, of the model's time.Duration (64 in Go).
DurationBits == 5
\* Token requests modelled in one run.
MaxPolls == 3

\* time.Sleep returns after at least d: by how much later, in seconds.
Oversleeps == {0, 1}
\* How long an HTTP round trip takes, in seconds.
RoundTrips == {0, 1}
\* How long printing the prompt takes, in seconds.
PromptDelays == {0, 1}

\* ------------------------------------------------------- time.Duration

RECURSIVE Pow2(_)
Pow2(n) == IF n = 0 THEN 1 ELSE 2 * Pow2(n - 1)

MaxDuration == Pow2(DurationBits - 1) - 1
MinDuration == 0 - Pow2(DurationBits - 1)

\* Two's-complement wrap-around of a time.Duration result.
WrapDuration(x) ==
    ((x - MinDuration) % Pow2(DurationBits)) + MinDuration

\* time.Duration(n) * time.Second
Seconds(n) == WrapDuration(n)

\* ------------------------------------------------------------ JSON bodies

\* A member of a JSON object: absent, a string or a number.
Absent == [t |-> "absent", s |-> "", n |-> 0]
Str(x) == [t |-> "string", s |-> x, n |-> 0]
Num(x) == [t |-> "number", s |-> "", n |-> x]

\* The error values of the program.
NilErr == [isNil |-> TRUE, msg |-> ""]
Err(m) == [isNil |-> FALSE, msg |-> m]

SyntaxErr == Err("invalid character")
TypeErr == Err("json: cannot unmarshal")
TransportErr == Err("transport error")

\* encoding/json storing member f into a Go string field holding old:
\* an absent member leaves the field, a string is stored, anything else is
\* an UnmarshalTypeError and leaves the field.
StringField(f, old) == IF f.t = "string" THEN f.s ELSE old
StringFieldOk(f) == f.t \in {"absent", "string"}

\* The same for a Go int field.
IntField(f, old) == IF f.t = "number" THEN f.n ELSE old
IntFieldOk(f) == f.t \in {"absent", "number"}

\* json.Unmarshal's error for a body of the given kind whose members
\* decoded with or without a type error: a syntax error stores nothing, a
\* JSON null stores nothing and is no error, another non-object value is a
\* type error.
UnmarshalErr(kind, membersOk) ==
    CASE kind = "invalid" -> SyntaxErr
      [] kind = "null" -> NilErr
      [] kind = "array" -> TypeErr
      [] OTHER -> IF membersOk THEN NilErr ELSE TypeErr

\* ------------------------------------------------- device-code response

NoDeviceFields ==
    [device_code |-> Absent, expires_in |-> Absent, interval |-> Absent,
     user_code |-> Absent, verification_uri |-> Absent]

DeviceBody(kind, f) == [kind |-> kind, f |-> f]

\* expires_in and interval values the server may send.
DeviceExpiresIn == {0, 1, 3, MaxDuration - 1, MaxDuration + 1}
DeviceIntervals == {0 - 2, 0, 1, (MaxDuration - 1) \div 2, MaxDuration}

FullDeviceFields(e, i) ==
    [device_code |-> Str("D"), expires_in |-> Num(e), interval |-> Num(i),
     user_code |-> Str("ABCD-1234"), verification_uri |-> Str("https://x/device")]

DeviceFieldNames ==
    {"device_code", "expires_in", "interval", "user_code", "verification_uri"}

\* The device-code response bodies modelled: complete ones, ones with one
\* member missing or of the wrong JSON type, the empty object, and bodies
\* that are not JSON objects.
DeviceCodeBodies ==
    {DeviceBody("object", FullDeviceFields(e, i)) :
        e \in DeviceExpiresIn, i \in DeviceIntervals}
    \cup {DeviceBody("object", [FullDeviceFields(3, 1) EXCEPT ![k] = Absent]) :
        k \in DeviceFieldNames}
    \cup {DeviceBody("object", [FullDeviceFields(3, 1) EXCEPT ![k] = Str("x")]) :
        k \in {"expires_in", "interval"}}
    \cup {DeviceBody("object", [FullDeviceFields(3, 1) EXCEPT ![k] = Num(7)]) :
        k \in {"device_code"}}
    \cup {DeviceBody("object", NoDeviceFields)}
    \cup {DeviceBody(k, NoDeviceFields) : k \in {"invalid", "null", "array"}}

\* type deviceCodeResponse, zero value
ZeroDeviceCodeResponse ==
    [isNil |-> FALSE, DeviceCode |-> "", ExpiresIn |-> 0, Interval |-> 0,
     UserCode |-> "", VerificationURI |-> ""]
NilDeviceCodeResponse == [ZeroDeviceCodeResponse EXCEPT !.isNil = TRUE]

\* json.Unmarshal(body, res) for res := &deviceCodeResponse{}
UnmarshalDeviceCode(body) ==
    LET f == body.f
        obj == body.kind = "object"
        ok == /\ StringFieldOk(f.device_code)
              /\ IntFieldOk(f.expires_in)
              /\ IntFieldOk(f.interval)
              /\ StringFieldOk(f.user_code)
              /\ StringFieldOk(f.verification_uri)
        z == ZeroDeviceCodeResponse
    IN [err |-> UnmarshalErr(body.kind, ok),
        res |-> IF obj
                THEN [isNil |-> FALSE,
                      DeviceCode |-> StringField(f.device_code, z.DeviceCode),
                      ExpiresIn |-> IntField(f.expires_in, z.ExpiresIn),
                      Interval |-> IntField(f.interval, z.Interval),
                      UserCode |-> StringField(f.user_code, z.UserCode),
                      VerificationURI |->
                          StringField(f.verification_uri, z.VerificationURI)]
                ELSE z]

\* A reply to post(): the transport failed, or a body was read.
Reply(ok, body) == [ok |-> ok, body |-> body]

\* postDeviceCode(): (res, err)
PostDeviceCodeResult(reply) ==
    IF ~reply.ok
    THEN [res |-> NilDeviceCodeResponse, err |-> TransportErr]
    ELSE LET u == UnmarshalDeviceCode(reply.body)
         IN IF ~u.err.isNil
            THEN [res |-> NilDeviceCodeResponse, err |-> u.err]
            ELSE [res |-> u.res, err |-> NilErr]

\* ------------------------------------------------------- token response

NoTokenFields ==
    [access_token |-> Absent, token_type |-> Absent, scope |-> Absent,
     error |-> Absent, error_description |-> Absent, error_uri |-> Absent]

TokenBody(kind, f) == [kind |-> kind, f |-> f]

AuthorizationPending == "authorization_pending"
SlowDown == "slow_down"

\* The members the token endpoint may send.
AccessTokenMembers == {Absent, Str(""), Str("tok123"), Num(1)}
TokenTypeMembers == {Str("bearer"), Num(1)}
ErrorMembers ==
    {Absent, Str(""), Str(AuthorizationPending), Str(SlowDown),
     Str("SLOW_DOWN"), Str("expired_token"), Num(1)}
\* error_description and error_uri: neither, both, or a description that
\* is not a string.
ErrorDetailMembers ==
    {<<Absent, Absent>>, <<Str("desc"), Str("uri")>>, <<Num(1), Str("uri")>>}

\* The token response bodies modelled: every combination of the members
\* above, and bodies that are not JSON objects.
TokenBodies ==
    {TokenBody("object",
        [access_token |-> a, token_type |-> t, scope |-> Str(""),
         error |-> e, error_description |-> d[1], error_uri |-> d[2]]) :
        a \in AccessTokenMembers, t \in TokenTypeMembers, e \in ErrorMembers,
        d \in ErrorDetailMembers}
    \cup {TokenBody(k, NoTokenFields) : k \in {"invalid", "null", "array"}}

\* type accessTokenResponse
ZeroAccessTokenResponse ==
    [isNil |-> FALSE, AccessToken |-> "", TokenType |-> "", Scope |-> ""]
NilAccessTokenResponse == [ZeroAccessTokenResponse EXCEPT !.isNil = TRUE]

\* type accessTokenErrorResponse
ZeroAccessTokenErrorResponse ==
    [isNil |-> FALSE, Error |-> "", ErrorDescription |-> "", ErrorUri |-> ""]
NilAccessTokenErrorResponse == [ZeroAccessTokenErrorResponse EXCEPT !.isNil = TRUE]

\* json.Unmarshal(body, res) for res := &accessTokenResponse{}
UnmarshalAccessToken(body) ==
    LET f == body.f
        ok == /\ StringFieldOk(f.access_token)
              /\ StringFieldOk(f.token_type)
              /\ StringFieldOk(f.scope)
        z == ZeroAccessTokenResponse
    IN [err |-> UnmarshalErr(body.kind, ok),
        res |-> IF body.kind = "object"
                THEN [isNil |-> FALSE,
                      AccessToken |-> StringField(f.access_token, z.AccessToken),
                      TokenType |-> StringField(f.token_type, z.TokenType),
                      Scope |-> StringField(f.scope, z.Scope)]
                ELSE z]

\* json.Unmarshal(body, errRes) for errRes := &accessTokenErrorResponse{}
UnmarshalAccessTokenError(body) ==
    LET f == body.f
        ok == /\ StringFieldOk(f.error)
              /\ StringFieldOk(f.error_description)
              /\ StringFieldOk(f.error_uri)
        z == ZeroAccessTokenErrorResponse
    IN [err |-> UnmarshalErr(body.kind, ok),
        res |-> IF body.kind = "object"
                THEN [isNil |-> FALSE,
                      Error |-> StringField(f.error, z.Error),
                      ErrorDescription |->
                          StringField(f.error_description, z.ErrorDescription),
                      ErrorUri |-> StringField(f.error_uri, z.ErrorUri)]
                ELSE z]

PostResult(res, errRes, err) == [res |-> res, errRes |-> errRes, err |-> err]

\* The first decode of postAccessToken is a success payload.
IsSuccessPayload(u) == u.err.isNil /\ u.res.AccessToken # ""

\* The second decode of postAccessToken is an error payload.
IsErrorPayload(u) == u.err.isNil /\ u.res.Error # ""

\* Mutant of PostAccessTokenResult: the error payload is tried first.
PostAccessTokenResult_ErrorFirst(reply) ==
    IF ~reply.ok
    THEN PostResult(NilAccessTokenResponse, NilAccessTokenErrorResponse,
                    TransportErr)
    ELSE LET u1 == UnmarshalAccessToken(reply.body)
             u2 == UnmarshalAccessTokenError(reply.body)
         IN IF IsErrorPayload(u2)
            THEN PostResult(NilAccessTokenResponse, u2.res, NilErr)
            ELSE IF IsSuccessPayload(u1)
            THEN PostResult(u1.res, NilAccessTokenErrorResponse, NilErr)
            ELSE PostResult(NilAccessTokenResponse,
                            NilAccessTokenErrorResponse, u1.err)

\* postAccessToken(deviceCode): (res, errRes, err)
PostAccessTokenResult(reply) ==
    IF ~reply.ok
    THEN PostResult(NilAccessTokenResponse, NilAccessTokenErrorResponse,
                    TransportErr)
    ELSE LET u1 == UnmarshalAccessToken(reply.body)
             u2 == UnmarshalAccessTokenError(reply.body)
         IN IF IsSuccessPayload(u1)
            THEN PostResult(u1.res, NilAccessTokenErrorResponse, NilErr)
            ELSE IF IsErrorPayload(u2)
            THEN PostResult(NilAccessTokenResponse, u2.res, NilErr)
            ELSE PostResult(NilAccessTokenResponse,
                            NilAccessTokenErrorResponse, u2.err)

\* fmt.Errorf("%s %s %s", code, description, uri)
Errorf(code, description, uri) ==
    Err(code \o " " \o description \o " " \o uri)

ExpiredErr == Err("code is already expired")

\* Mutant of After: the deadline itself counts as expired.
After_OrEqual(t, u) == t >= u

\* time.Now().After(expiresAt)
After(t, u) == t > u

\* interval *= 2
DoubleInterval(d) == WrapDuration(d * 2)

\* What one iteration of pollAccessToken does with postAccessToken's
\* result r: continue the loop with an interval, or return (resp, err).
Continue(d) ==
    [return |-> FALSE, interval |-> d,
     resp |-> NilAccessTokenResponse, err |-> NilErr]
Return(d, resp, err) ==
    [return |-> TRUE, interval |-> d, resp |-> resp, err |-> err]

\* Mutant of HandleResult: authorization_pending backs off like slow_down.
HandleResult_PendingBacksOff(r, d) ==
    IF ~r.err.isNil
    THEN Return(d, NilAccessTokenResponse, r.err)
    ELSE IF ~r.errRes.isNil /\ r.errRes.Error \in {AuthorizationPending, SlowDown}
    THEN Continue(DoubleInterval(d))
    ELSE IF ~r.errRes.isNil /\ r.errRes.Error # ""
    THEN Return(d, NilAccessTokenResponse,
                Errorf(r.errRes.Error, r.errRes.ErrorDescription,
                       r.errRes.ErrorUri))
    ELSE Return(d, r.res, NilErr)

\* Mutant of HandleResult: an unrecognised error code is polled again like
\* authorization_pending.
HandleResult_UnknownContinues(r, d) ==
    IF ~r.err.isNil
    THEN Return(d, NilAccessTokenResponse, r.err)
    ELSE IF ~r.errRes.isNil /\ r.errRes.Error = SlowDown
    THEN Continue(DoubleInterval(d))
    ELSE IF ~r.errRes.isNil
    THEN Continue(d)
    ELSE Return(d, r.res, NilErr)

\* Mutant of HandleResult: the provider's expired_token is reported as the
\* deadline error.
HandleResult_ExpiredTokenAsDeadline(r, d) ==
    IF ~r.err.isNil
    THEN Return(d, NilAccessTokenResponse, r.err)
    ELSE IF ~r.errRes.isNil /\ r.errRes.Error = AuthorizationPending
    THEN Continue(d)
    ELSE IF ~r.errRes.isNil /\ r.errRes.Error = SlowDown
    THEN Continue(DoubleInterval(d))
    ELSE IF ~r.errRes.isNil /\ r.errRes.Error = "expired_token"
    THEN Return(d, NilAccessTokenResponse, ExpiredErr)
    ELSE IF ~r.errRes.isNil /\ r.errRes.Error # ""
    THEN Return(d, NilAccessTokenResponse,
                Errorf(r.errRes.Error, r.errRes.ErrorDescription,
                       r.errRes.ErrorUri))
    ELSE Return(d, r.res, NilErr)

\* Mutant of HandleResult: a result with neither payload nor error polls
\* again instead of returning.
HandleResult_NeitherContinues(r, d) ==
    IF ~r.err.isNil
    THEN Return(d, NilAccessTokenResponse, r.err)
    ELSE IF ~r.errRes.isNil /\ r.errRes.Error = AuthorizationPending
    THEN Continue(d)
    ELSE IF ~r.errRes.isNil /\ r.errRes.Error = SlowDown
    THEN Continue(DoubleInterval(d))
    ELSE IF ~r.errRes.isNil /\ r.errRes.Error # ""
    THEN Return(d, NilAccessTokenResponse,
                Errorf(r.errRes.Error, r.errRes.ErrorDescription,
                       r.errRes.ErrorUri))
    ELSE IF r.res.isNil
    THEN Continue(d)
    ELSE Return(d, r.res, NilErr)

\* Mutant of HandleResult: slow_down is not handled and falls through to the
\* provider-error return.
HandleResult_SlowDownReturns(r, d) ==
    IF ~r.err.isNil
    THEN Return(d, NilAccessTokenResponse, r.err)
    ELSE IF ~r.errRes.isNil /\ r.errRes.Error = AuthorizationPending
    THEN Continue(d)
    ELSE IF ~r.errRes.isNil /\ r.errRes.Error # ""
    THEN Return(d, NilAccessTokenResponse,
                Errorf(r.errRes.Error, r.errRes.ErrorDescription,
                       r.errRes.ErrorUri))
    ELSE Return(d, r.res, NilErr)

\* Mutant of HandleResult: a transport failure is retried after a sleep.
HandleResult_TransportRetries(r, d) ==
    IF r.err = TransportErr
    THEN Continue(d)
    ELSE IF ~r.err.isNil
    THEN Return(d, NilAccessTokenResponse, r.err)
    ELSE IF ~r.errRes.isNil /\ r.errRes.Error = AuthorizationPending
    THEN Continue(d)
    ELSE IF ~r.errRes.isNil /\ r.errRes.Error = SlowDown
    THEN Continue(DoubleInterval(d))
    ELSE IF ~r.errRes.isNil /\ r.errRes.Error # ""
    THEN Return(d, NilAccessTokenResponse,
                Errorf(r.errRes.Error, r.errRes.ErrorDescription,
                       r.errRes.ErrorUri))
    ELSE Return(d, r.res, NilErr)

HandleResult(r, d) ==
    IF ~r.err.isNil
    THEN Return(d, NilAccessTokenResponse, r.err)
    ELSE IF ~r.errRes.isNil /\ r.errRes.Error = AuthorizationPending
    THEN Continue(d)
    ELSE IF ~r.errRes.isNil /\ r.errRes.Error = SlowDown
    THEN Continue(DoubleInterval(d))
    ELSE IF ~r.errRes.isNil /\ r.errRes.Error # ""
    THEN Return(d, NilAccessTokenResponse,
                Errorf(r.errRes.Error, r.errRes.ErrorDescription,
                       r.errRes.ErrorUri))
    ELSE Return(d, r.res, NilErr)

\* time.Sleep(d) started at t and oversleeping by over: a negative or zero
\* duration returns immediately.
SleepEnd(t, d, over) == IF d > 0 THEN t + d + over ELSE t

\* ------------------------------------------------------------------ state

VARIABLES
    pc,                     \* position in run / pollAccessToken
    now,                    \* the clock, in seconds
    deviceCodeRequestTime,  \* run: deviceCodeRequestTime
    dcResp,                 \* run: dcResp
    interval,               \* pollAccessToken: interval
    expiresAt,              \* pollAccessToken: expiresAt
    retResp,                \* pollAccessToken's returned *accessTokenResponse
    retErr,                 \* pollAccessToken's returned error
    runErr,                 \* run's returned error
    output,                 \* what run has printed
    deviceRequests,         \* history: device-code requests sent
    tokenRequests,          \* history: token requests sent
    sleeps,                 \* history: the duration of every time.Sleep
    sleepStart,             \* history: the clock when the last sleep began
    responses,              \* history: the error member of every token body
    lastReply,              \* history: the last reply of the token endpoint
    deviceReply             \* history: the reply of the device-code endpoint

vars ==
    <<pc, now, deviceCodeRequestTime, dcResp, interval, expiresAt, retResp,
      retErr, runErr, output, deviceRequests, tokenRequests, sleeps,
      sleepStart, responses, lastReply, deviceReply>>

pollVars == <<interval, expiresAt, retResp, retErr>>
history ==
    <<deviceRequests, tokenRequests, sleeps, sleepStart, responses, lastReply,
      deviceReply>>

NoReply == Reply(FALSE, TokenBody("none", NoTokenFields))

DeviceCodeReplies ==
    {Reply(TRUE, b) : b \in DeviceCodeBodies}
    \cup {Reply(FALSE, DeviceBody("none", NoDeviceFields))}

TokenReplies ==
    {Reply(TRUE, b) : b \in TokenBodies} \cup {NoReply}

\* The error member of a token reply, as sent ("" when there is none).
ErrorMemberOf(reply) ==
    IF reply.ok /\ reply.body.f.error.t = "string"
    THEN reply.body.f.error.s
    ELSE ""

Init ==
    /\ pc = "run"
    /\ now = 0
    /\ deviceCodeRequestTime = 0
    /\ dcResp = NilDeviceCodeResponse
    /\ interval = 0
    /\ expiresAt = 0
    /\ retResp = NilAccessTokenResponse
    /\ retErr = NilErr
    /\ runErr = NilErr
    /\ output = <<>>
    /\ deviceRequests = 0
    /\ tokenRequests = 0
    /\ sleeps = <<>>
    /\ sleepStart = 0
    /\ responses = <<>>
    /\ lastReply = NoReply
    /\ deviceReply = Reply(FALSE, DeviceBody("none", NoDeviceFields))

\* ---------------------------------------------------------------- run

\* Mutant of RunPostDeviceCode: the error of postDeviceCode is ignored and
\* run goes on to the prompt.
RunPostDeviceCode_IgnoresError ==
    /\ pc = "run"
    /\ \E reply \in DeviceCodeReplies, rtt \in RoundTrips :
        LET r == PostDeviceCodeResult(reply)
        IN /\ deviceCodeRequestTime' = now
           /\ now' = now + rtt
           /\ dcResp' = [r.res EXCEPT !.isNil = FALSE]
           /\ runErr' = NilErr
           /\ pc' = "prompt"
           /\ deviceReply' = reply
    /\ deviceRequests' = deviceRequests + 1
    /\ UNCHANGED <<pollVars, output, tokenRequests, sleeps, sleepStart,
                   responses, lastReply>>

\* run, step 1: note the time, request the device code, return its error.
RunPostDeviceCode ==
    /\ pc = "run"
    /\ \E reply \in DeviceCodeReplies, rtt \in RoundTrips :
        LET r == PostDeviceCodeResult(reply)
        IN /\ deviceCodeRequestTime' = now
           /\ now' = now + rtt
           /\ dcResp' = r.res
           /\ runErr' = r.err
           /\ pc' = IF r.err.isNil THEN "prompt" ELSE "exit"
           /\ deviceReply' = reply
    /\ deviceRequests' = deviceRequests + 1
    /\ UNCHANGED <<pollVars, output, tokenRequests, sleeps, sleepStart,
                   responses, lastReply>>

\* run, step 2: print the verification URI and the user code.
RunPrompt ==
    /\ pc = "prompt"
    /\ output' = output \o <<dcResp.VerificationURI, dcResp.UserCode>>
    /\ \E d \in PromptDelays : now' = now + d
    /\ pc' = "poll"
    /\ UNCHANGED <<deviceCodeRequestTime, dcResp, pollVars, runErr, history>>

\* interval := time.Duration(dcResp.Interval+1) * time.Second
StartInterval(r) == Seconds(r.Interval + 1)

\* expiresAt := deviceCodeRequestTime.Add(time.Duration(dcResp.ExpiresIn) * time.Second)
StartExpiresAt(t, r) == t + Seconds(r.ExpiresIn)

\* run, step 3: call pollAccessToken(dcResp.DeviceCode, interval, expiresAt).
RunCallPoll ==
    /\ pc = "poll"
    /\ interval' = StartInterval(dcResp)
    /\ expiresAt' = StartExpiresAt(deviceCodeRequestTime, dcResp)
    /\ pc' = "sleep"
    /\ sleepStart' = now
    /\ UNCHANGED <<now, deviceCodeRequestTime, dcResp, retResp, retErr, runErr,
                   output, deviceRequests, tokenRequests, sleeps, responses,
                   lastReply, deviceReply>>

\* ------------------------------------------------------ pollAccessToken

\* Mutant of PollSleep: a sleep that would end after the deadline is cut to
\* end just after it.
PollSleep_CutAtDeadline ==
    /\ pc = "sleep"
    /\ \E over \in Oversleeps :
        LET end == SleepEnd(now, interval, over)
        IN now' = IF now <= expiresAt /\ end > expiresAt + 1
                  THEN expiresAt + 1
                  ELSE end
    /\ sleeps' = Append(sleeps, interval)
    /\ pc' = "check"
    /\ UNCHANGED <<deviceCodeRequestTime, dcResp, pollVars, runErr, output,
                   deviceRequests, tokenRequests, sleepStart, responses,
                   lastReply, deviceReply>>

\* time.Sleep(interval) at the top of every iteration.
PollSleep ==
    /\ pc = "sleep"
    /\ \E over \in Oversleeps : now' = SleepEnd(now, interval, over)
    /\ sleeps' = Append(sleeps, interval)
    /\ pc' = "check"
    /\ UNCHANGED <<deviceCodeRequestTime, dcResp, pollVars, runErr, output,
                   deviceRequests, tokenRequests, sleepStart, responses,
                   lastReply, deviceReply>>

\* Mutant of PollCheckDeadline: the deadline is checked at loop entry only.
PollCheckDeadline_EntryOnly ==
    /\ pc = "check"
    /\ IF tokenRequests = 0 /\ After(now, expiresAt)
       THEN /\ retResp' = NilAccessTokenResponse
            /\ retErr' = ExpiredErr
            /\ pc' = "polled"
       ELSE /\ pc' = "post"
            /\ UNCHANGED <<retResp, retErr>>
    /\ UNCHANGED <<now, deviceCodeRequestTime, dcResp, interval, expiresAt,
                   runErr, output, history>>

\* if time.Now().After(expiresAt) { return nil, errors.New(...) }
PollCheckDeadline ==
    /\ pc = "check"
    /\ IF After(now, expiresAt)
       THEN /\ retResp' = NilAccessTokenResponse
            /\ retErr' = ExpiredErr
            /\ pc' = "polled"
       ELSE /\ pc' = "post"
            /\ UNCHANGED <<retResp, retErr>>
    /\ UNCHANGED <<now, deviceCodeRequestTime, dcResp, interval, expiresAt,
                   runErr, output, history>>

\* postAccessToken(deviceCode) and the handling of its result: the request
\* leaves at the instant of the deadline check, the reply takes a round trip.
PollPostAccessToken ==
    /\ pc = "post"
    /\ tokenRequests < MaxPolls
    /\ \E reply \in TokenReplies, rtt \in RoundTrips :
        LET h == HandleResult(PostAccessTokenResult(reply), interval)
        IN /\ now' = now + rtt
           /\ sleepStart' = IF h.return THEN sleepStart ELSE now + rtt
           /\ lastReply' = reply
           /\ responses' = Append(responses, ErrorMemberOf(reply))
           /\ interval' = h.interval
           /\ retResp' = h.resp
           /\ retErr' = h.err
           /\ pc' = IF h.return THEN "polled" ELSE "sleep"
    /\ tokenRequests' = tokenRequests + 1
    /\ UNCHANGED <<deviceCodeRequestTime, dcResp, expiresAt, runErr, output,
                   deviceRequests, sleeps, deviceReply>>

\* ------------------------------------------------------ run, after the poll

\* run, after pollAccessToken: return its error, or print the token.  With
\* a nil acResp and a nil err, acResp.AccessToken is a nil dereference.
RunFinish ==
    /\ pc = "polled"
    /\ IF ~retErr.isNil
       THEN /\ runErr' = retErr
            /\ pc' = "exit"
            /\ UNCHANGED output
       ELSE IF retResp.isNil
       THEN /\ pc' = "panic"
            /\ UNCHANGED <<runErr, output>>
       ELSE /\ output' = Append(output, retResp.AccessToken)
            /\ runErr' = NilErr
            /\ pc' = "exit"
    /\ UNCHANGED <<now, deviceCodeRequestTime, dcResp, pollVars, history>>

Next ==
    \/ RunPostDeviceCode
    \/ RunPrompt
    \/ RunCallPoll
    \/ PollSleep
    \/ PollCheckDeadline
    \/ PollPostAccessToken
    \/ RunFinish

Spec == Init /\ [][Next]_vars

\* ------------------------------------------------------------- claims

\* What the replies are, read from the bodies as sent.
MemberText(m) == IF m.t = "string" THEN m.s ELSE ""
MemberIsText(m) == m.t \in {"absent", "string"}

\* A success payload: an object whose access_token, token_type and scope
\* are strings where present, with a non-empty access_token.
IsSuccessReply(reply) ==
    /\ reply.ok
    /\ reply.body.kind = "object"
    /\ MemberIsText(reply.body.f.access_token)
    /\ MemberIsText(reply.body.f.token_type)
    /\ MemberIsText(reply.body.f.scope)
    /\ MemberText(reply.body.f.access_token) # ""

\* An error payload: not a success payload, an object whose error,
\* error_description and error_uri are strings where present, with a
\* non-empty error.
IsErrorReply(reply) ==
    /\ reply.ok
    /\ reply.body.kind = "object"
    /\ ~IsSuccessReply(reply)
    /\ MemberIsText(reply.body.f.error)
    /\ MemberIsText(reply.body.f.error_description)
    /\ MemberIsText(reply.body.f.error_uri)
    /\ MemberText(reply.body.f.error) # ""

\* pollAccessToken has returned.
PollReturned == pc \in {"polled", "exit", "panic"} /\ Len(sleeps) > 0

\* The poll loop is running.
Polling == pc \in {"sleep", "check", "post"}

\* The payload pollAccessToken returns for a success reply.
PayloadOf(reply) ==
    [isNil |-> FALSE,
     AccessToken |-> MemberText(reply.body.f.access_token),
     TokenType |-> MemberText(reply.body.f.token_type),
     Scope |-> MemberText(reply.body.f.scope)]

\* C1: no token request is issued at a moment when now > expiresAt: on
\* every iteration the program is about to send a token request only when
\* the clock is not after the deadline.
C1_NoRequestAfterDeadline == pc = "post" => ~(now > expiresAt)

\* C1 witness: a third token request is about to leave, at the deadline.
C1_Witness == pc = "post" /\ tokenRequests = 2 /\ now = expiresAt

\* All replies before the last one carried authorization_pending.
PendingsBeforeLast ==
    \A i \in 1..(Len(responses) - 1) : responses[i] = AuthorizationPending

\* C2: after n authorization_pending replies and one success reply,
\* pollAccessToken has returned that success payload and no error, has sent
\* n + 1 token requests, and every sleep lasted the starting interval.
C2_PendingThenSuccess ==
    (PollReturned /\ IsSuccessReply(lastReply) /\ PendingsBeforeLast)
        => /\ retErr.isNil
           /\ retResp = PayloadOf(lastReply)
           /\ tokenRequests >= Len(responses)
           /\ Len(sleeps) = Len(responses)
           /\ \A i \in DOMAIN sleeps : sleeps[i] = sleeps[1]
           /\ interval = sleeps[1]

\* C2 witness: two authorization_pending replies, then the token.
C2_Witness ==
    /\ pc = "polled"
    /\ IsSuccessReply(lastReply)
    /\ Len(responses) = 3
    /\ PendingsBeforeLast
    /\ retResp.AccessToken = "tok123"
    /\ sleeps[1] # 0

\* The number of slow_down replies at the end of a sequence of replies.
RECURSIVE TrailingSlowDowns(_)
TrailingSlowDowns(seq) ==
    IF seq = <<>> \/ seq[Len(seq)] # SlowDown
    THEN 0
    ELSE 1 + TrailingSlowDowns(SubSeq(seq, 1, Len(seq) - 1))

\* C3: after the k consecutive slow_down replies that end the replies
\* handled so far, the interval is 2^k times the interval slept before the
\* first of them.
C3_IntervalTimesPow2 ==
    (Polling /\ responses # <<>>)
        => LET k == TrailingSlowDowns(responses)
           IN k > 0 => interval = sleeps[Len(responses) - k + 1] * Pow2(k)

\* The error code of the last reply, and whether a code is neither empty
\* nor one of the two the poller keeps polling on.
LastCode == responses[Len(responses)]
IsTerminalCode(c) == c \notin {"", AuthorizationPending, SlowDown}

\* The error pollAccessToken builds from an error payload.
ProviderErrOf(reply) ==
    [isNil |-> FALSE,
     msg |-> MemberText(reply.body.f.error) \o " "
             \o MemberText(reply.body.f.error_description) \o " "
             \o MemberText(reply.body.f.error_uri)]

\* pollAccessToken returned on the last reply, failing with the provider's
\* code, description and URI, without another sleep or token request.
FailedOnLastReply ==
    /\ PollReturned
    /\ retResp.isNil
    /\ retErr = ProviderErrOf(lastReply)
    /\ Len(sleeps) = Len(responses)
    /\ tokenRequests = Len(responses)
    /\ \A i \in 1..(Len(responses) - 1) :
        responses[i] \in {AuthorizationPending, SlowDown}

\* C4 as stated: a reply carrying a non-empty error code other than
\* authorization_pending and slow_down makes pollAccessToken fail at once
\* with the code, description and URI, with no further request or sleep.
C4_AnyCarriedCodeFails ==
    (responses # <<>> /\ lastReply.ok /\ IsTerminalCode(LastCode))
        => FailedOnLastReply

\* C4 amended: the same for a reply that is an error payload (no non-empty
\* access_token decodes from it, and its error members are strings).
C4_TerminalCodeFails ==
    (responses # <<>> /\ IsErrorReply(lastReply) /\ IsTerminalCode(LastCode))
        => FailedOnLastReply

\* C4 witness: authorization_pending, then expired_token with description
\* and URI, which are returned in the error.
C4_Witness ==
    /\ pc = "polled"
    /\ responses = <<AuthorizationPending, "expired_token">>
    /\ IsErrorReply(lastReply)
    /\ retErr.msg = "expired_token desc uri"

\* C5: a reply that is neither a success payload nor an error payload
\* makes pollAccessToken return an error, never a result without one.
C5_NeitherPayloadFails ==
    (PollReturned /\ responses # <<>> /\ lastReply.ok
     /\ ~IsSuccessReply(lastReply) /\ ~IsErrorReply(lastReply))
        => ~retErr.isNil

\* C6: pollAccessToken returns either a token payload with a non-empty
\* access token and no error, or an error and no token; run ends with the
\* token printed and no error, or with an error, and never otherwise.
C6_ExactlyOneOutcome ==
    /\ PollReturned
        => \/ ~retResp.isNil /\ retResp.AccessToken # "" /\ retErr.isNil
           \/ retResp.isNil /\ ~retErr.isNil
    /\ pc # "panic"

RequiredDeviceFields ==
    {"device_code", "user_code", "verification_uri", "expires_in", "interval"}

\* The device-code body is not a JSON object or lacks a required member.
DeviceBodyIncomplete ==
    \/ deviceReply.body.kind # "object"
    \/ \E k \in RequiredDeviceFields : deviceReply.body.f[k].t = "absent"

\* C7: a device-code body that is not valid JSON or lacks a required member
\* makes run fail at once, with no prompt, sleep or token request.
C7_IncompleteDeviceCodeFails ==
    (deviceRequests > 0 /\ deviceReply.ok /\ DeviceBodyIncomplete)
        => /\ pc = "exit"
           /\ ~runErr.isNil
           /\ output = <<>>
           /\ sleeps = <<>>
           /\ tokenRequests = 0

\* C8 as stated: a reply whose access_token is a non-empty string is
\* returned as the token, whatever else the body holds.
C8_AnyTokenIsSuccess ==
    (responses # <<>> /\ lastReply.ok /\ lastReply.body.kind = "object"
     /\ lastReply.body.f.access_token.t = "string"
     /\ lastReply.body.f.access_token.s # "")
        => /\ PollReturned
           /\ retErr.isNil
           /\ ~retResp.isNil
           /\ retResp.AccessToken = lastReply.body.f.access_token.s

\* C8 amended: a success payload (token_type and scope strings where
\* present) is returned as the token whatever its error member is, and the
\* poll neither continues nor fails.
C8_SuccessPayloadWins ==
    (responses # <<>> /\ IsSuccessReply(lastReply))
        => /\ PollReturned
           /\ retErr.isNil
           /\ retResp = PayloadOf(lastReply)
           /\ tokenRequests = Len(responses)
           /\ Len(sleeps) = Len(responses)

\* C8 witness: a body with both a token and error slow_down returned the
\* token.
C8_Witness ==
    /\ pc = "polled"
    /\ IsSuccessReply(lastReply)
    /\ LastCode = SlowDown
    /\ retResp.AccessToken = "tok123"
    /\ retErr.isNil

\* pollAccessToken returned straight after waking, with no reply handled
\* in its last iteration.
ReturnedOnWake == PollReturned /\ Len(sleeps) > Len(responses)

\* C9: on every iteration, the first included, a poller that wakes after
\* the deadline returns the Expired failure and sends no further token
\* request, and one that wakes at or before it goes on to the request; a
\* grant whose lifetime is shorter than the starting interval ends in
\* Expired with no token request at all.
C9_ExpiredOnWake ==
    /\ pc = "post" => now <= expiresAt
    /\ ReturnedOnWake
        => /\ now > expiresAt
           /\ retErr = [isNil |-> FALSE, msg |-> "code is already expired"]
           /\ retResp.isNil
           /\ tokenRequests = Len(responses)
    /\ (sleeps # <<>> /\ expiresAt - deviceCodeRequestTime < sleeps[1])
        => /\ tokenRequests = 0
           /\ ~Polling => ReturnedOnWake

\* C9 witness: two replies were handled and the third wake was late.
C9_Witness ==
    /\ pc = "polled"
    /\ ReturnedOnWake
    /\ tokenRequests = 2
    /\ retErr.msg = "code is already expired"

\* C10: slow_down and then expired_token from the token endpoint end the
\* poll with the provider's error carrying expired_token, which is not the
\* deadline's error.
C10_ExpiredTokenIsNotDeadline ==
    (responses = <<SlowDown, "expired_token">> /\ IsErrorReply(lastReply))
        => /\ PollReturned
           /\ ~ReturnedOnWake
           /\ retResp.isNil
           /\ retErr.msg \in {"expired_token  ", "expired_token desc uri"}
           /\ retErr = ProviderErrOf(lastReply)
           /\ retErr.msg # "code is already expired"
           /\ tokenRequests = 2

\* C10 witness: the scenario, with description and URI.
C10_Witness ==
    /\ pc = "polled"
    /\ responses = <<SlowDown, "expired_token">>
    /\ IsErrorReply(lastReply)
    /\ retErr.msg = "expired_token desc uri"
    /\ sleeps = <<2, 4>>

\* The token request of the current iteration is about to be decided or sent.
AboutToRequest == pc \in {"check", "post"}

\* C11: every token request, the first included, comes right after one full
\* sleep of the current interval, and the first sleep lasts the declared
\* interval plus one second; pending, pending, success returns the token
\* after exactly three requests and three equal waits.
C11_FullSleepBeforeEveryRequest ==
    /\ AboutToRequest
        => /\ Len(sleeps) = tokenRequests + 1
           /\ sleeps[Len(sleeps)] = interval
           /\ now >= sleepStart + interval
    /\ sleeps # <<>> => sleeps[1] = dcResp.Interval + 1
    /\ (responses = <<AuthorizationPending, AuthorizationPending, "">>
        /\ IsSuccessReply(lastReply))
        => /\ tokenRequests = 3
           /\ sleeps = <<dcResp.Interval + 1, dcResp.Interval + 1,
                         dcResp.Interval + 1>>
           /\ retResp = PayloadOf(lastReply)

\* The device-code request, respectively the last token request, failed in
\* transport.
DeviceTransportFailed == deviceRequests > 0 /\ ~deviceReply.ok
TokenTransportFailed == tokenRequests > 0 /\ ~lastReply.ok

\* C12: a transport failure of the device-code request or of any token
\* request is not retried: the failing request is the last request of the
\* flow, and the flow fails with that transport error unchanged.
C12_TransportFailureIsFinal ==
    /\ DeviceTransportFailed
        => /\ pc = "exit"
           /\ runErr = [isNil |-> FALSE, msg |-> "transport error"]
           /\ deviceRequests = 1
           /\ tokenRequests = 0
           /\ sleeps = <<>>
    /\ TokenTransportFailed
        => /\ pc \in {"polled", "exit"}
           /\ retErr = [isNil |-> FALSE, msg |-> "transport error"]
           /\ retResp.isNil
           /\ pc = "exit" => runErr = retErr
           /\ deviceRequests = 1
           /\ tokenRequests = Len(responses)
           /\ Len(sleeps) = tokenRequests

\* C12 witness: the second token request failed in transport and run has
\* returned that error.
C12_Witness ==
    /\ pc = "exit"
    /\ TokenTransportFailed
    /\ tokenRequests = 2
    /\ runErr.msg = "transport error"

\* The errors a provider code of authorization_pending or slow_down would
\* surface as, for the descriptions and URIs a reply can carry.
ControlCodeErrs ==
    {[isNil |-> FALSE, msg |-> c \o " " \o d \o " " \o u] :
        c \in {"authorization_pending", "slow_down"},
        d \in {"", "desc"}, u \in {"", "uri"}}

\* The last reply is an error payload whose code is a control signal.
LastReplyIsControl ==
    /\ tokenRequests > 0
    /\ IsErrorReply(lastReply)
    /\ MemberText(lastReply.body.f.error)
        \in {"authorization_pending", "slow_down"}

\* C13: pollAccessToken never returns an error whose provider code is
\* authorization_pending or slow_down; a reply with either code is followed
\* by another sleep, and the poll returns after it only on the deadline.
C13_ControlCodesNeverSurface ==
    /\ retErr \notin ControlCodeErrs
    /\ runErr \notin ControlCodeErrs
    /\ LastReplyIsControl
        => /\ pc = "sleep" \/ Len(sleeps) = tokenRequests + 1
           /\ pc = "sleep" => (retErr.isNil /\ retResp.isNil)
           /\ PollReturned
                => (ReturnedOnWake /\ retErr.msg = "code is already expired")

\* C13 witness: a slow_down reply with description and URI was consumed and
\* the loop slept again.
C13_Witness ==
    /\ pc = "check"
    /\ LastReplyIsControl
    /\ MemberText(lastReply.body.f.error) = "slow_down"
    /\ MemberText(lastReply.body.f.error_description) = "desc"
    /\ Len(sleeps) = 2

\* C14: while the poll loop runs, for every interval and expires_in the
\* server may send, no step lowers the current interval and no step
\* modifies the deadline expiresAt.
C14_IntervalNeverShrinks ==
    [][Polling => (interval' >= interval /\ expiresAt' = expiresAt)]_vars

\* pollAccessToken has been called.
PollCalled == Polling \/ PollReturned

\* C15: issuedAt is the clock at the moment run is entered (0), before the
\* device-code request is sent; the poller is called with the grant's
\* interval plus one second and with expiresAt = issuedAt + expires_in,
\* whatever the request's round trip and the prompt took.
C15_DeadlineFromIssuedAt ==
    /\ deviceRequests > 0 => deviceCodeRequestTime = 0
    /\ PollCalled => expiresAt = deviceCodeRequestTime + dcResp.ExpiresIn
    /\ (pc = "sleep" /\ tokenRequests = 0)
        => interval = dcResp.Interval + 1

\* The causes for which pollAccessToken has returned.
ExitBySuccess ==
    /\ ~ReturnedOnWake
    /\ IsSuccessReply(lastReply)
    /\ retErr.isNil
    /\ retResp = PayloadOf(lastReply)
ExitByExpiry ==
    /\ ReturnedOnWake
    /\ retErr.msg = "code is already expired"
    /\ retResp.isNil
ExitByProviderError ==
    /\ ~ReturnedOnWake
    /\ IsErrorReply(lastReply)
    /\ IsTerminalCode(MemberText(lastReply.body.f.error))
    /\ retErr = ProviderErrOf(lastReply)
    /\ retResp.isNil
ExitByTransportError ==
    /\ ~ReturnedOnWake
    /\ ~lastReply.ok
    /\ retErr.msg = "transport error"
    /\ retResp.isNil
ExitByDecodeError ==
    /\ ~ReturnedOnWake
    /\ lastReply.ok
    /\ ~IsSuccessReply(lastReply)
    /\ ~IsErrorReply(lastReply)
    /\ ~retErr.isNil
    /\ retErr.msg \notin {"transport error", "code is already expired"}
    /\ retResp.isNil
ExitWithNothing ==
    /\ ~ReturnedOnWake
    /\ lastReply.ok
    /\ ~IsSuccessReply(lastReply)
    /\ ~IsErrorReply(lastReply)
    /\ retErr.isNil
    /\ retResp.isNil

\* C16 as stated: a poll that has returned did so for a success payload,
\* for the deadline, or for a terminal provider error code.
C16_ThreeCausesOnly ==
    PollReturned => (ExitBySuccess \/ ExitByExpiry \/ ExitByProviderError)

\* C16, amended: a poll that has returned did so for a success payload, for
\* the deadline, for a terminal provider error code, for a transport or
\* decode error of the token request, or with neither token nor error for
\* a body that is neither payload; and the loop goes on only after
\* authorization_pending or slow_down.
C16_ExitCauses ==
    /\ PollReturned
        => \/ ExitBySuccess
           \/ ExitByExpiry
           \/ ExitByProviderError
           \/ ExitByTransportError
           \/ ExitByDecodeError
           \/ ExitWithNothing
    /\ (Polling /\ tokenRequests > 0) => LastReplyIsControl

\* C16 witness: the poll returned on a body that is not valid JSON.
C16_Witness ==
    /\ pc = "polled"
    /\ ExitByDecodeError
    /\ lastReply.body.kind = "invalid"
    /\ tokenRequests = 2

\* postDeviceCode fails: the transport failed, or the body does not decode
\* into deviceCodeResponse (not JSON, not an object or null, or a member of
\* the wrong JSON type).
DeviceMemberMistyped ==
    \/ \E k \in {"device_code", "user_code", "verification_uri"} :
        deviceReply.body.f[k].t \notin {"absent", "string"}
    \/ \E k \in {"expires_in", "interval"} :
        deviceReply.body.f[k].t \notin {"absent", "number"}
DeviceRequestFailed ==
    /\ deviceRequests > 0
    /\ \/ ~deviceReply.ok
       \/ deviceReply.body.kind \in {"invalid", "array"}
       \/ deviceReply.body.kind = "object" /\ DeviceMemberMistyped

\* C17: run makes exactly one device-code request, then shows the prompt,
\* then polls; a failed device-code request ends the run with its error, no
\* prompt, no sleep and no token request.
C17_RequesterPromptPoller ==
    /\ deviceRequests = IF pc = "run" THEN 0 ELSE 1
    /\ pc \in {"run", "prompt"}
        => (output = <<>> /\ sleeps = <<>> /\ tokenRequests = 0)
    /\ PollCalled
        => (Len(output) >= 2 /\ ~DeviceRequestFailed)
    /\ DeviceRequestFailed
        => /\ pc = "exit"
           /\ runErr.msg = IF ~deviceReply.ok THEN "transport error"
                           ELSE IF deviceReply.body.kind = "invalid"
                           THEN "invalid character"
                           ELSE "json: cannot unmarshal"
           /\ output = <<>>
           /\ sleeps = <<>>
           /\ tokenRequests = 0

\* C17 witness: the device-code body had a member of the wrong type and run
\* returned the decode error at once.
C17_Witness ==
    /\ pc = "exit"
    /\ DeviceRequestFailed
    /\ deviceReply.ok
    /\ deviceReply.body.kind = "object"
    /\ tokenRequests = 0

\* The time the sleeps in s took when each lasted exactly its duration (a
\* sleep of zero or less takes no time).
RECURSIVE SleptExactly(_)
SleptExactly(s) ==
    IF s = <<>> THEN 0
    ELSE (IF s[1] > 0 THEN s[1] ELSE 0) + SleptExactly(Tail(s))

\* C18: when the starting interval is at least one second and the clock
\* has advanced by exactly the slept intervals, the number of token
\* requests issued is at most floor(expires_in / starting interval).
C18_RequestsBounded ==
    (sleeps # <<>> /\ sleeps[1] >= 1
     /\ now = deviceCodeRequestTime + SleptExactly(sleeps))
        => tokenRequests <= dcResp.ExpiresIn \div sleeps[1]

\* The interval of the last sleep.
LastSleep == sleeps[Len(sleeps)]

\* No time has passed but in sleeps that lasted exactly their interval.
OnlyExactSleeps == now = deviceCodeRequestTime + SleptExactly(sleeps)

\* C19 as stated: whenever Expired is returned, the time of the return lies
\* in (expiresAt, expiresAt + currentInterval].
C19_ExpiredWithinOneInterval ==
    ReturnedOnWake => (now > expiresAt /\ now <= expiresAt + LastSleep)

\* C19, amended: whenever Expired is returned, the return is after
\* expiresAt and no sooner than the full current interval after the last
\* sleep began; it is at most expiresAt + currentInterval when the deadline
\* is not before issuedAt and no time passed but in exact sleeps.
C19_ExpiredAfterFullSleep ==
    ReturnedOnWake
        => /\ now > expiresAt
           /\ LastSleep = interval
           /\ now >= sleepStart + LastSleep
           /\ (expiresAt >= deviceCodeRequestTime /\ OnlyExactSleeps)
                => now <= expiresAt + LastSleep

\* C19 witness: Expired was returned after a doubled sleep that began
\* before the deadline and ended more than one interval after it.
C19_Witness ==
    /\ pc = "polled"
    /\ ReturnedOnWake
    /\ responses = <<SlowDown>>
    /\ sleeps = <<dcResp.Interval + 1, 2 * (dcResp.Interval + 1)>>
    /\ LastSleep > 0
    /\ sleepStart <= expiresAt
    /\ now >= sleepStart + LastSleep
    /\ now > expiresAt + LastSleep

====
